---- MODULE Spec2Model ----
(***************************************************************************)
(* A model of the sensor ingestion program (arduino_sensor.py) and of the  *)
(* HTTP distribution layer (routers/api_v1/endpoints/data.py).             *)
(*                                                                         *)
(* SpecIngest : read_arduino_data with SensorDatabase.save_sensor_data     *)
(*              unfolded into its database round trips.                    *)
(* SpecData   : read_latest_data (the 5 second cache) called by GET /data  *)
(*              requests, unfolded at their awaits.                        *)
(* SpecStream : read_latest_data called by one /replace stream connection. *)
(***************************************************************************)
EXTENDS Integers, Sequences, FiniteSets, TLC

VARIABLES
    \* ---- the PostgreSQL server, shared by both programs
    dbUp,               \* the server is reachable
    rows,               \* committed rows of sensor_readings, in insertion order
    now,                \* wall clock, in seconds
    \* ---- arduino_sensor.py: SensorDatabase object
    connection,         \* self.connection: "none" | "open" | "broken" | "closed"
    txn,                \* state of the connection's transaction
    pending,            \* row INSERTed but not yet committed (<<>> when none)
    \* ---- arduino_sensor.py: read_arduino_data
    ipc,                \* position of the ingestion loop
    serialOpen,         \* serial_reader.serial_connection.is_open
    raw_data,           \* the line read_line returned last
    reading,            \* (ph_value, orp_value, ntu_value) given to save_sensor_data
    consecutive_errors, \* the loop's failure counter
    saveResult,         \* how the current save_sensor_data call ended
    \* ---- observers of the ingestion loop (history, not program state)
    nonSysStreak,       \* unparsable non-system lines read in a row
    callLog,            \* database operations of the current save call, in order
    committedInCall,    \* the current save call committed its row
    \* ---- data.py: module globals
    cached_data,        \* cached_data
    last_cache_time,    \* last_cache_time
    \* ---- data.py: one record of locals per task
    task,
    \* ---- observer of the stream connections (history, not program state)
    slog,               \* per stream: its last iteration, see NoIteration
    exitReason,         \* why read_arduino_data left its loop
    previousResult,     \* observer: what the save_sensor_data call before
                        \* the current one returned
    \* ---- arduino_sensor.py: SerialDataReader.read_line
    codec_pc,           \* position: "idle" | "read" | "decoded"
    line_bytes,         \* read_line: raw_data, the bytes readline returned
    decoded_data,       \* read_line: decoded_data, a sequence of code points
    decode_attempts     \* observer: decode calls safe_decode made

ingestVars == <<connection, txn, pending, ipc, serialOpen, raw_data, reading,
                consecutive_errors, saveResult, nonSysStreak, callLog,
                committedInCall, exitReason, previousResult>>
webVars == <<cached_data, last_cache_time, task, slog>>
codecVars == <<codec_pc, line_bytes, decoded_data, decode_attempts>>
vars == <<dbUp, rows, now, ingestVars, webVars, codecVars>>

-----------------------------------------------------------------------------
(* Bounds of the model *)

\* rows the ingestion loop may append before the model stops reading lines
MaxRows == 2

-----------------------------------------------------------------------------
(* Python's None and optional values: None is the empty tuple, a present   *)
(* value v is <<v>>.                                                        *)

None == <<>>
Some(v) == <<v>>
IsNone(x) == x = <<>>
Val(x) == x[1]

-----------------------------------------------------------------------------
(* Lines of the serial link.  A decoded line is a sequence of lexemes:     *)
(*   k = "pH"        the text matched by  pH[_\s]*value                    *)
(*   k = "ORP", "NTU", "Turbidity"   the other labels                      *)
(*   k = ":"         a colon (followed by optional blanks)                 *)
(*   k = "-", "."    a sign, a decimal point                               *)
(*   k = "num"       a run of w digits of value v                          *)
(*   k = "txt"       other text;  k = "sensor" text holding "sensor";      *)
(*   k = "init"      text holding the init keyword of line 506             *)
(* pH values are kept in hundredths (7.0 is 700).                          *)

Tok(k, v, w) == [k |-> k, v |-> v, w |-> w]
Lab(k) == Tok(k, 0, 0)
Num(v, w) == Tok("num", v, w)

KindAt(line, i) == IF i >= 1 /\ i <= Len(line) THEN line[i].k ELSE "end"

\* position of the token after an optional ":" that follows position i
AfterColon(line, i) == IF KindAt(line, i + 1) = ":" THEN i + 2 ELSE i + 1

\* -?\d+ at position j: the value, or None when the pattern does not match there
SignedInt(line, j) ==
    IF KindAt(line, j) = "-"
    THEN IF KindAt(line, j + 1) = "num" THEN Some(0 - line[j + 1].v) ELSE None
    ELSE IF KindAt(line, j) = "num" THEN Some(line[j].v) ELSE None

\* hundredths denoted by the fraction digits of a num token
Frac(t) == IF t.w = 1 THEN t.v * 10 ELSE IF t.w = 2 THEN t.v ELSE 0

\* -?\d+\.?\d* at position j, read by float(): hundredths, or None
UnsignedDecimal(line, j) ==
    IF KindAt(line, j) # "num" THEN None
    ELSE IF KindAt(line, j + 1) = "." /\ KindAt(line, j + 2) = "num"
         THEN Some(line[j].v * 100 + Frac(line[j + 2]))
         ELSE Some(line[j].v * 100)

SignedDecimal(line, j) ==
    IF KindAt(line, j) = "-"
    THEN IF IsNone(UnsignedDecimal(line, j + 1)) THEN None
         ELSE Some(0 - Val(UnsignedDecimal(line, j + 1)))
    ELSE UnsignedDecimal(line, j)

\* the capture group of a pattern at position j: a decimal or an integer
Capture(line, j, decimal) ==
    IF decimal THEN SignedDecimal(line, j) ELSE SignedInt(line, j)

\* re.search: the match at the leftmost position where the pattern matches
FirstMatch(line, labels, decimal) ==
    LET hits == { i \in 1..Len(line) :
                    /\ line[i].k \in labels
                    /\ ~IsNone(Capture(line, AfterColon(line, i), decimal)) }
    IN  IF hits = {} THEN None
        ELSE LET i == CHOOSE h \in hits : \A g \in hits : h <= g
             IN  Capture(line, AfterColon(line, i), decimal)

ph_pattern(line) == FirstMatch(line, {"pH"}, TRUE)
orp_pattern(line) == FirstMatch(line, {"ORP"}, FALSE)
ntu_pattern(line) == FirstMatch(line, {"Turbidity", "NTU"}, FALSE)

\* SensorDataParser.parse_sensor_data: (ph_value, orp_value, ntu_value)
parse_sensor_data(line) ==
    IF line = <<>> THEN <<None, None, None>>
    ELSE <<ph_pattern(line), orp_pattern(line), ntu_pattern(line)>>

\* line 437 with the test dropped: every non-empty line is taken as a reading
HasValue_Unchecked(r) == TRUE

\* line 437: at least one of the three values was extracted
HasValue(r) == ~IsNone(r[1]) \/ ~IsNone(r[2]) \/ ~IsNone(r[3])

\* line 506: the lenient keyword check for system messages
IsSystemMessage(line) == \E i \in 1..Len(line) : line[i].k \in {"init", "sensor"}

\* the lines the serial link delivers in the model
Lines ==
    { <<Lab("pH"), Lab(":"), Num(7, 1), Lab("."), Num(0, 1),
        Lab("ORP"), Lab(":"), Num(400, 3), Lab("NTU"), Lab(":"), Num(12, 2)>>,
      <<Lab("NTU"), Lab(":"), Num(12, 2)>>,
      <<Lab("pH"), Lab(":"), Num(150, 3), Lab("."), Num(0, 1)>>,
      <<Lab("ORP"), Lab(":"), Lab("-"), Num(50, 2)>>,
      <<Lab("ORP"), Lab(":"), Lab("txt")>>,
      <<Lab("txt")>>,
      <<Lab("sensor")>>,
      <<Lab("init")>> }

-----------------------------------------------------------------------------
(* SerialDataReader.safe_decode, lines 69-98.  Bytes are numbers 0..255 and  *)
(* a decoded string is the sequence of its code points.                     *)

\* bytes per line the model draws
MaxBytes == 3

\* the bytes of the model: a control character, a tab, a blank, a letter and
\* 0xFF, which no encoding of encoding_list but latin1 decodes
ByteValues == {1, 9, 32, 65, 255}

ByteLines == UNION { [1..n -> ByteValues] : n \in 0..MaxBytes }

\* line 50
encoding_list == <<"utf-8", "big5", "gb2312", "ascii", "latin1">>

\* U+FFFD, what errors='replace' puts for an undecodable byte
ReplacementChar == 65533

\* bytes.decode of one byte: the 7-bit range is the same in all five
\* encodings, latin1 maps every byte to its code point, and an undecodable
\* byte is dropped (errors='ignore') or replaced (errors='replace')
DecodeByte(b, encoding, errors) ==
    IF b < 128 \/ encoding = "latin1" THEN <<b>>
    ELSE IF errors = "replace" THEN <<ReplacementChar>>
    ELSE <<>>

RECURSIVE Decode(_, _, _)
Decode(raw, encoding, errors) ==
    IF raw = <<>> THEN <<>>
    ELSE DecodeByte(Head(raw), encoding, errors)
            \o Decode(Tail(raw), encoding, errors)

\* the code points str.strip() removes at both ends
Whitespace == {9, 10, 11, 12, 13, 28, 29, 30, 31, 32, 133, 160}

RECURSIVE Strip(_)
Strip(str) ==
    IF str = <<>> THEN <<>>
    ELSE IF Head(str) \in Whitespace THEN Strip(Tail(str))
    ELSE IF str[Len(str)] \in Whitespace THEN Strip(SubSeq(str, 1, Len(str) - 1))
    ELSE str

\* line 95: the characters the last fallback keeps
Printable(c) == c >= 32 \/ c \in {9, 10, 13}

Cleaned(str) == SelectSeq(str, Printable)

\* lines 75-81: the encodings of encoding_list whose decoding is not empty
Decodable(raw) ==
    { i \in 1..Len(encoding_list) :
        Strip(Decode(raw, encoding_list[i], "ignore")) # <<>> }

FirstDecodable(raw) == CHOOSE i \in Decodable(raw) : \A j \in Decodable(raw) : i <= j

\* lines 75-81: the first decoding that is not empty is returned as it is
FirstDecoding(raw) ==
    Strip(Decode(raw, encoding_list[FirstDecodable(raw)], "ignore"))

\* SerialDataReader.safe_decode
safe_decode(raw) ==
    IF raw = <<>> THEN <<>>
    ELSE IF Decodable(raw) # {} THEN FirstDecoding(raw)
    ELSE IF Strip(Decode(raw, "utf-8", "replace")) # <<>>
         THEN Strip(Decode(raw, "utf-8", "replace"))
    ELSE Cleaned(Strip(Decode(raw, "latin1", "ignore")))

\* the decode calls safe_decode makes before it returns
DecodeAttempts(raw) ==
    IF raw = <<>> THEN 0
    ELSE IF Decodable(raw) # {} THEN FirstDecodable(raw)
    ELSE IF Strip(Decode(raw, "utf-8", "replace")) # <<>>
         THEN Len(encoding_list) + 1
    ELSE Len(encoding_list) + 2

\* read_line is not running
CodecIdle ==
    /\ codec_pc = "idle"
    /\ line_bytes = <<>>
    /\ decoded_data = <<>>
    /\ decode_attempts = 0

-----------------------------------------------------------------------------
(* SensorDatabase: derived labels and the sensor_readings table *)

\* threshold constants of _get_ph_status, in hundredths
PhAcidicBelow == 650
PhAlkalineAbove == 750

\* line 342 with "<" mistaken for "<="
_get_ph_status_Inclusive(ph_value) ==
    IF ph_value <= PhAcidicBelow THEN "acidic"
    ELSE IF ph_value > PhAlkalineAbove THEN "alkaline"
    ELSE "neutral"

\* the labels are named by their meaning: "acidic" is the stored text of
\* line 343, "alkaline" of line 345, "neutral" of line 347
_get_ph_status(ph_value) ==
    IF ph_value < PhAcidicBelow THEN "acidic"
    ELSE IF ph_value > PhAlkalineAbove THEN "alkaline"
    ELSE "neutral"

_get_orp_status(orp_value) ==
    IF orp_value > 650 THEN "strongly oxidizing"
    ELSE IF orp_value > 300 THEN "oxidizing"
    ELSE IF orp_value > 0 THEN "weakly oxidizing"
    ELSE "reducing"

\* lines 362-363 answering False for an absent value
_is_water_quality_good_FalseWhenAbsent(ph_value, orp_value) ==
    IF IsNone(ph_value) \/ IsNone(orp_value) THEN Some(FALSE)
    ELSE Some(/\ Val(ph_value) >= 650 /\ Val(ph_value) <= 850
              /\ Val(orp_value) >= 200 /\ Val(orp_value) <= 800)

_is_water_quality_good(ph_value, orp_value) ==
    IF IsNone(ph_value) \/ IsNone(orp_value) THEN None
    ELSE Some(/\ Val(ph_value) >= 650 /\ Val(ph_value) <= 850
              /\ Val(orp_value) >= 200 /\ Val(orp_value) <= 800)

\* lines 297-317: the tuple of values save_sensor_data hands to INSERT
InsertValues(t, r) ==
    [ timestamp |-> t,
      ph_value |-> r[1],
      orp_value |-> r[2],
      ntu_value |-> r[3],
      ph_status |-> IF IsNone(r[1]) THEN None ELSE Some(_get_ph_status(Val(r[1]))),
      orp_status |-> IF IsNone(r[2]) THEN None ELSE Some(_get_orp_status(Val(r[2]))),
      water_quality_good |-> _is_water_quality_good(r[1], r[2]) ]

\* DECIMAL(4,2) holds |x| < 100; INTEGER is 32 bits wide
DecimalLimit == 10000
IntegerLimit == 2147483647

InRange(x, lo, hi) == IsNone(x) \/ (Val(x) >= lo /\ Val(x) <= hi)

\* the column types of create_table accept the row
ColumnsAccept(row) ==
    /\ InRange(row.ph_value, 1 - DecimalLimit, DecimalLimit - 1)
    /\ InRange(row.orp_value, 0 - IntegerLimit - 1, IntegerLimit)
    /\ InRange(row.ntu_value, 0 - IntegerLimit - 1, IntegerLimit)

-----------------------------------------------------------------------------
(* data.py: the dict-shaped results.  A dict is a record with the set of   *)
(* its keys; the fields of absent keys hold fixed defaults.  "by" and      *)
(* "last_updated" tell the objects of different calls apart, so that two   *)
(* references are equal exactly when they refer to one Python object.      *)
(* Python's None, where a dict is expected, is the dict with no keys.      *)

Iso(t) == <<"iso", t>>
Str(x) == IF IsNone(x) THEN None ELSE <<"str", Val(x)>>
Repr(d) == <<"repr", d, 0>>

NoLatest == [timestamp |-> None, ph_value |-> None, orp_value |-> None,
             ntu_value |-> None]

NoDict == [keys |-> {}, latest_data |-> NoLatest, last_updated |-> None,
           total_records |-> None, error |-> "", by |-> ""]

\* lines 70 and 105: the two error results
ErrorDict(msg) == [NoDict EXCEPT !.keys = {"error"}, !.error = msg]

\* line 84: the result for a table without rows
EmptyTableDict == [NoDict EXCEPT !.keys = {"message", "data"}]

\* line 95 reading the clock again instead of using current_time
SuccessDict_StampedAnew(row, current_time, t) ==
    [ keys |-> {"status", "latest_data", "last_updated"},
      latest_data |-> [ timestamp |-> <<"iso", row.timestamp>>,
                        ph_value |-> IF row.ph_value = <<>> THEN <<>>
                                     ELSE <<"str", row.ph_value[1]>>,
                        orp_value |-> IF row.orp_value = <<>> THEN <<>>
                                      ELSE <<"str", row.orp_value[1]>>,
                        ntu_value |-> IF row.ntu_value = <<>> THEN <<>>
                                      ELSE <<"str", row.ntu_value[1]>> ],
      last_updated |-> <<"iso", now>>,
      total_records |-> <<>>,
      error |-> "",
      by |-> t ]

\* lines 87-96: the success result built from a row
SuccessDict(row, current_time, t) ==
    [ keys |-> {"status", "latest_data", "last_updated"},
      latest_data |-> [ timestamp |-> Iso(row.timestamp),
                        ph_value |-> Str(row.ph_value),
                        orp_value |-> Str(row.orp_value),
                        ntu_value |-> Str(row.ntu_value) ],
      last_updated |-> Iso(current_time),
      total_records |-> None,
      error |-> "",
      by |-> t ]

\* line 173: result["total_records"] = total_count
WithTotal(d, n) ==
    [d EXCEPT !.keys = @ \cup {"total_records"}, !.total_records = Some(n)]

-----------------------------------------------------------------------------
(* The PostgreSQL server as the programs see it *)

\* the server becomes unreachable: the open session dies with its open
\* transaction, which the client notices at its next round trip
DbDown ==
    /\ dbUp
    /\ dbUp' = FALSE
    /\ connection' = IF connection = "open" THEN "broken" ELSE connection
    /\ pending' = None
    /\ task' = IF DOMAIN task = {} THEN task
               ELSE [t \in DOMAIN task |->
                       IF task[t].conn = "open"
                       THEN [task[t] EXCEPT !.conn = "broken"] ELSE task[t]]
    /\ UNCHANGED <<rows, now, txn, ipc, serialOpen, raw_data, reading,
                   consecutive_errors, saveResult, nonSysStreak, callLog,
                   committedInCall, exitReason, cached_data, last_cache_time,
                   slog, codecVars, previousResult>>

DbUp ==
    /\ ~dbUp
    /\ dbUp' = TRUE
    /\ UNCHANGED <<rows, now, ingestVars, webVars, codecVars>>

-----------------------------------------------------------------------------
(* SensorDatabase: connection handling *)

\* a statement sent on the connection gets its answer
RoundTripOk(conn, t) == conn = "open" /\ t # "failed"

\* self.connection after a round trip: psycopg2 marks a dead session closed
AfterRoundTrip(conn) == IF conn = "broken" THEN "closed" ELSE conn

\* check_connection: SELECT 1 answers on a connection that is not closed
check_connection(conn, t) == conn \in {"open", "broken"} /\ RoundTripOk(conn, t)

\* line 284 without the reconnect branch
NeedsReconnect_Never(alive) == FALSE

\* line 284: the reconnect is attempted when the liveness check fails
NeedsReconnect(alive) == ~alive

\* connect: psycopg2.connect and SELECT version() succeed on a reachable server
connect(up) == up

\* self.connection after reconnect: the old one closed, a new one if connect worked
AfterReconnect(conn, ok) ==
    IF ok THEN "open" ELSE IF conn = "none" THEN "none" ELSE "closed"

\* line 337: rollback raises on a connection that is closed or dead
RollbackRaises(conn) == conn # "open"

-----------------------------------------------------------------------------
(* read_arduino_data: start-up, lines 379-410 *)

max_consecutive_errors == 10

SerialConnect ==
    /\ ipc = "start"
    /\ \E ok \in BOOLEAN :
        /\ serialOpen' = ok
        /\ ipc' = IF ok THEN "db_connect" ELSE "done"
    /\ UNCHANGED <<dbUp, rows, now, connection, txn, pending, raw_data, reading,
                   consecutive_errors, saveResult, nonSysStreak, callLog,
                   committedInCall, exitReason, previousResult,
                   webVars, codecVars>>

DbConnect ==
    /\ ipc = "db_connect"
    /\ connection' = AfterReconnect(connection, connect(dbUp))
    /\ txn' = IF connect(dbUp) THEN "active" ELSE txn
    /\ serialOpen' = connect(dbUp)
    /\ ipc' = IF connect(dbUp) THEN "create_table" ELSE "done"
    /\ UNCHANGED <<dbUp, rows, now, pending, raw_data, reading,
                   consecutive_errors, saveResult, nonSysStreak, callLog,
                   committedInCall, exitReason, previousResult,
                   webVars, codecVars>>

CreateTable ==
    /\ ipc = "create_table"
    /\ IF RoundTripOk(connection, txn)
       THEN /\ txn' = "idle"
            /\ ipc' = "loop"
            /\ UNCHANGED <<connection, serialOpen>>
       ELSE /\ connection' = "closed"
            /\ serialOpen' = FALSE
            /\ ipc' = "done"
            /\ UNCHANGED txn
    /\ UNCHANGED <<dbUp, rows, now, pending, raw_data, reading,
                   consecutive_errors, saveResult, nonSysStreak, callLog,
                   committedInCall, exitReason, previousResult,
                   webVars, codecVars>>

-----------------------------------------------------------------------------
(* read_arduino_data: the loop, lines 420-511 *)

\* read_line returned None or an empty string: idle wait, same position
ReadIdle ==
    /\ ipc = "loop"
    /\ raw_data' = <<>>
    /\ UNCHANGED <<dbUp, rows, now, connection, txn, pending, ipc, serialOpen,
                   reading, consecutive_errors, saveResult, nonSysStreak,
                   callLog, committedInCall, exitReason, previousResult,
                   webVars, codecVars>>

\* lines 435-476: a line with at least one value; save_sensor_data is entered
ReadParsed ==
    /\ ipc = "loop"
    /\ Len(rows) < MaxRows
    /\ \E line \in Lines :
        /\ HasValue(parse_sensor_data(line))
        /\ raw_data' = line
        /\ reading' = parse_sensor_data(line)
    /\ consecutive_errors' = 0
    /\ nonSysStreak' = 0
    /\ callLog' = <<>>
    /\ committedInCall' = FALSE
    /\ saveResult' = "none"
    /\ previousResult' = saveResult
    /\ ipc' = "save_check"
    /\ UNCHANGED <<dbUp, rows, now, connection, txn, pending, serialOpen,
                   exitReason, webVars, codecVars>>

\* lines 497-508: the counter after an unparsable line
CounterAfter(errors, system) ==
    IF errors + 1 >= max_consecutive_errors THEN errors + 1
    ELSE IF system THEN 0 ELSE errors + 1

\* line 501: the circuit breaker
Breaks(errors) == errors + 1 >= max_consecutive_errors

\* lines 497-508: a line with no value
ReadUnparsed ==
    /\ ipc = "loop"
    /\ \E line \in Lines :
        /\ ~HasValue(parse_sensor_data(line))
        /\ raw_data' = line
        /\ consecutive_errors' =
              CounterAfter(consecutive_errors, IsSystemMessage(line))
        /\ nonSysStreak' = IF IsSystemMessage(line) THEN 0 ELSE nonSysStreak + 1
    /\ ipc' = IF Breaks(consecutive_errors) THEN "finally" ELSE "sleep"
    /\ exitReason' = IF Breaks(consecutive_errors) THEN "breaker" ELSE exitReason
    /\ UNCHANGED <<dbUp, rows, now, connection, txn, pending, serialOpen,
                   reading, saveResult, callLog, committedInCall, previousResult,
                   webVars, codecVars>>

\* line 511: the inter-read delay
Sleep ==
    /\ ipc = "sleep"
    /\ ipc' = "loop"
    /\ UNCHANGED <<dbUp, rows, now, connection, txn, pending, serialOpen,
                   raw_data, reading, consecutive_errors, saveResult,
                   nonSysStreak, callLog, committedInCall, exitReason, previousResult,
                   webVars, codecVars>>

\* lines 477-495: back in the loop after save_sensor_data returned
AfterSave ==
    /\ ipc = "after_save"
    /\ ipc' = "sleep"
    /\ UNCHANGED <<dbUp, rows, now, connection, txn, pending, serialOpen,
                   raw_data, reading, consecutive_errors, saveResult,
                   nonSysStreak, callLog, committedInCall, exitReason, previousResult,
                   webVars, codecVars>>

\* lines 517-520: the finally block releases both resources
Finally ==
    /\ ipc = "finally"
    /\ serialOpen' = FALSE
    /\ connection' = "closed"
    /\ ipc' = "done"
    /\ UNCHANGED <<dbUp, rows, now, txn, pending, raw_data, reading,
                   consecutive_errors, saveResult, nonSysStreak, callLog,
                   committedInCall, exitReason, previousResult,
                   webVars, codecVars>>

-----------------------------------------------------------------------------
(* SensorDatabase.save_sensor_data, lines 280-338, one action per round trip *)

\* line 284: check_connection
SaveCheck ==
    /\ ipc = "save_check"
    /\ LET alive == check_connection(connection, txn)
       IN  /\ callLog' = Append(callLog, IF alive THEN "check_ok" ELSE "check_fail")
           /\ txn' = IF alive THEN "active" ELSE txn
           /\ ipc' = IF NeedsReconnect(alive) THEN "save_reconnect" ELSE "save_insert"
    /\ connection' = AfterRoundTrip(connection)
    /\ UNCHANGED <<dbUp, rows, now, pending, serialOpen, raw_data, reading,
                   consecutive_errors, saveResult, nonSysStreak,
                   committedInCall, exitReason, previousResult,
                   webVars, codecVars>>

\* lines 286-288: reconnect; on failure the call returns False
SaveReconnect ==
    /\ ipc = "save_reconnect"
    /\ LET ok == connect(dbUp)
       IN  /\ callLog' = Append(callLog, IF ok THEN "reconnect_ok" ELSE "reconnect_fail")
           /\ connection' = AfterReconnect(connection, ok)
           /\ txn' = IF ok THEN "active" ELSE txn
           /\ pending' = IF ok THEN None ELSE pending
           /\ saveResult' = IF ok THEN saveResult ELSE "False"
           /\ ipc' = IF ok THEN "save_insert" ELSE "after_save"
    /\ UNCHANGED <<dbUp, rows, now, serialOpen, raw_data, reading,
                   consecutive_errors, nonSysStreak, committedInCall,
                   exitReason, previousResult,
                   webVars, codecVars>>

\* lines 297-322: the labels are computed and the INSERT is executed
SaveInsert ==
    /\ ipc = "save_insert"
    /\ LET row == InsertValues(now, reading)
       IN  IF RoundTripOk(connection, txn)
           THEN IF ColumnsAccept(row)
                THEN /\ callLog' = Append(callLog, "insert")
                     /\ pending' = Some(row)
                     /\ ipc' = "save_commit"
                     /\ UNCHANGED txn
                ELSE /\ callLog' = Append(callLog, "insert_rejected")
                     /\ txn' = "failed"
                     /\ ipc' = "save_rollback"
                     /\ UNCHANGED pending
           ELSE /\ callLog' = Append(callLog, "insert_error")
                /\ ipc' = "save_rollback"
                /\ UNCHANGED <<txn, pending>>
    /\ connection' = AfterRoundTrip(connection)
    /\ UNCHANGED <<dbUp, rows, now, serialOpen, raw_data, reading,
                   consecutive_errors, saveResult, nonSysStreak,
                   committedInCall, exitReason, previousResult,
                   webVars, codecVars>>

\* line 323: commit makes the inserted row visible, atomically
SaveCommit ==
    /\ ipc = "save_commit"
    /\ IF RoundTripOk(connection, txn) /\ ~IsNone(pending)
       THEN /\ callLog' = Append(callLog, "commit")
            /\ rows' = Append(rows, Val(pending))
            /\ pending' = None
            /\ txn' = "idle"
            /\ committedInCall' = TRUE
            /\ ipc' = "save_verify"
       ELSE /\ callLog' = Append(callLog, "commit_error")
            /\ ipc' = "save_rollback"
            /\ UNCHANGED <<rows, pending, txn, committedInCall>>
    /\ connection' = AfterRoundTrip(connection)
    /\ UNCHANGED <<dbUp, now, serialOpen, raw_data, reading,
                   consecutive_errors, saveResult, nonSysStreak,
                   exitReason, previousResult,
                   webVars, codecVars>>

\* lines 326-332: the read-back SELECT, then return True
SaveVerify ==
    /\ ipc = "save_verify"
    /\ IF RoundTripOk(connection, txn)
       THEN /\ callLog' = Append(callLog, "select")
            /\ txn' = "active"
            /\ saveResult' = "True"
            /\ ipc' = "after_save"
       ELSE /\ callLog' = Append(callLog, "select_error")
            /\ ipc' = "save_rollback"
            /\ UNCHANGED <<txn, saveResult>>
    /\ connection' = AfterRoundTrip(connection)
    /\ UNCHANGED <<dbUp, rows, now, pending, serialOpen, raw_data, reading,
                   consecutive_errors, nonSysStreak, committedInCall,
                   exitReason, previousResult,
                   webVars, codecVars>>

\* lines 334-338: the except handler: rollback, return False; a rollback that
\* raises leaves save_sensor_data and is caught at line 515
SaveRollback ==
    /\ ipc = "save_rollback"
    /\ IF RollbackRaises(connection)
       THEN /\ callLog' = Append(callLog, "rollback_error")
            /\ saveResult' = "raised"
            /\ exitReason' = "exception"
            /\ ipc' = "finally"
            /\ UNCHANGED <<txn, pending>>
       ELSE /\ callLog' = Append(callLog, "rollback")
            /\ txn' = "idle"
            /\ pending' = None
            /\ saveResult' = "False"
            /\ ipc' = "after_save"
            /\ UNCHANGED exitReason
    /\ connection' = AfterRoundTrip(connection)
    /\ UNCHANGED <<dbUp, rows, now, serialOpen, raw_data, reading,
                   consecutive_errors, nonSysStreak, committedInCall, previousResult,
                   webVars, codecVars>>

-----------------------------------------------------------------------------
(* The ingestion program *)

\* the web server is not part of this program
WebIdle ==
    /\ cached_data = NoDict
    /\ last_cache_time = None
    /\ task = <<>>
    /\ slog = <<>>

InitIngest ==
    /\ dbUp \in BOOLEAN
    /\ rows = <<>>
    /\ now = 0
    /\ connection = "none"
    /\ txn = "idle"
    /\ pending = None
    /\ ipc = "start"
    /\ serialOpen = FALSE
    /\ raw_data = <<>>
    /\ reading = <<None, None, None>>
    /\ consecutive_errors = 0
    /\ saveResult = "none"
    /\ nonSysStreak = 0
    /\ callLog = <<>>
    /\ committedInCall = FALSE
    /\ exitReason = "none"
    /\ previousResult = "none"
    /\ WebIdle
    /\ CodecIdle

NextIngest ==
    \/ DbDown
    \/ DbUp
    \/ SerialConnect
    \/ DbConnect
    \/ CreateTable
    \/ ReadIdle
    \/ ReadParsed
    \/ ReadUnparsed
    \/ Sleep
    \/ SaveCheck
    \/ SaveReconnect
    \/ SaveInsert
    \/ SaveCommit
    \/ SaveVerify
    \/ SaveRollback
    \/ AfterSave
    \/ Finally

SpecIngest == InitIngest /\ [][NextIngest]_vars

\* the ingestion program keeps running: the loop of line 420 always takes
\* its next step
SpecIngestFair == SpecIngest /\ WF_vars(NextIngest)

-----------------------------------------------------------------------------
(* The ingestion program with the operator's stop signal *)

\* positions inside the try block of lines 401-520
InsideTry == {"loop", "sleep", "after_save", "save_check", "save_reconnect",
              "save_insert", "save_commit", "save_verify", "save_rollback"}

\* positions of lines 392-399: the serial link is open, the try block of
\* line 401 not yet entered
BeforeTry == {"db_connect", "create_table"}

\* KeyboardInterrupt: inside the try block it is caught at line 513 and the
\* finally block follows; before the try block nothing catches it (connect
\* and create_table catch Exception only) and it leaves read_arduino_data
Interrupt ==
    /\ ipc \in InsideTry \cup BeforeTry
    /\ ipc' = IF ipc \in InsideTry THEN "finally" ELSE "done"
    /\ exitReason' = "interrupt"
    /\ UNCHANGED <<dbUp, rows, now, connection, txn, pending, serialOpen,
                   raw_data, reading, consecutive_errors, saveResult,
                   nonSysStreak, callLog, committedInCall, previousResult,
                   webVars, codecVars>>

NextInterrupt == NextIngest \/ Interrupt

SpecInterrupt == InitIngest /\ [][NextInterrupt]_vars

-----------------------------------------------------------------------------
(* Properties of the ingestion program *)

SaveEnded == saveResult # "none"
InSave == ipc \in {"save_check", "save_reconnect", "save_insert", "save_commit",
                   "save_verify", "save_rollback"}
LogHas(ops) == \E i \in 1..Len(callLog) : callLog[i] \in ops
InsertOps == {"insert", "insert_rejected", "insert_error"}
ReconnectOps == {"reconnect_ok", "reconnect_fail"}
CheckOps == {"check_ok", "check_fail"}
LostRoundTrips == {"insert_error", "commit_error", "select_error", "rollback_error"}

\* C1: the loop is left through the circuit breaker exactly when 10
\* unparsable lines that are not system messages were read in a row; a system
\* message never trips the breaker itself.
C1_BreakerOnlyAfterTenNonSystemLines ==
    (exitReason = "breaker") <=> (nonSysStreak >= max_consecutive_errors)

\* the breaker tripped on a line that is a system message
C1_SystemMessageTripsBreaker ==
    /\ exitReason = "breaker"
    /\ IsSystemMessage(raw_data)
    /\ nonSysStreak = 0

\* C2: every row of sensor_readings has at least one of the three values,
\* save_sensor_data is never entered with all three None, and a row holding
\* only a turbidity value has no acidity, no redox, no label and no quality flag.
C2_NoEmptyRowAndTurbidityOnlyRow ==
    /\ \A i \in 1..Len(rows) :
        /\ ~(rows[i].ph_value = None /\ rows[i].orp_value = None
             /\ rows[i].ntu_value = None)
        /\ (rows[i].ph_value = None /\ rows[i].orp_value = None) =>
             /\ rows[i].ph_status = None
             /\ rows[i].orp_status = None
             /\ rows[i].water_quality_good = None
    /\ (InSave \/ SaveEnded) =>
          ~(reading[1] = None /\ reading[2] = None /\ reading[3] = None)

C2_TurbidityOnlyRowStored ==
    \E i \in 1..Len(rows) :
        /\ rows[i].ph_value = None
        /\ rows[i].orp_value = None
        /\ rows[i].ntu_value # None

\* C3: in every save_sensor_data call the liveness check is the first database
\* operation and the only check, a reconnect happens exactly when the check
\* failed and then exactly once, right after it, and a call whose reconnect
\* failed issues no INSERT.
C3_CheckFirstOneReconnect ==
    /\ \A i \in 1..Len(callLog) : (callLog[i] \in CheckOps) <=> (i = 1)
    /\ \A i \in 1..Len(callLog) :
          (callLog[i] \in ReconnectOps) <=> (i = 2 /\ callLog[1] = "check_fail")
    /\ LogHas({"reconnect_fail"}) => ~LogHas(InsertOps)
    /\ SaveEnded => callLog # <<>>

C3_ReconnectThenInsert ==
    /\ Len(callLog) >= 3
    /\ callLog[1] = "check_fail"
    /\ callLog[2] = "reconnect_ok"
    /\ callLog[3] = "insert"

\* C4: a save whose liveness check failed returns success with its row stored
\* when the reconnect succeeded and the database answered from then on, and
\* returns False with no row stored and no exception when the reconnect failed.
C4_ReconnectDecidesTheAppend ==
    SaveEnded /\ callLog[1] = "check_fail" =>
        /\ (callLog[2] = "reconnect_ok" /\ ~LogHas(LostRoundTrips)) =>
              (saveResult = "True" /\ committedInCall)
        /\ callLog[2] = "reconnect_fail" =>
              (saveResult = "False" /\ ~committedInCall)

\* the reconnect succeeded, every round trip was answered, and the call
\* still returned False
C4_ReconnectedAndAnsweredYetFalse ==
    /\ SaveEnded
    /\ Len(callLog) >= 2
    /\ callLog[1] = "check_fail"
    /\ callLog[2] = "reconnect_ok"
    /\ ~LogHas(LostRoundTrips)
    /\ saveResult = "False"

\* C5: the outcome of save_sensor_data agrees with the table: the call reports
\* success exactly when it committed its row.
C5_OutcomeAgreesWithStore ==
    SaveEnded => ((saveResult = "True") <=> committedInCall)

\* the row is committed and the call did not report success
C5_CommittedButNotReported ==
    /\ SaveEnded
    /\ saveResult # "True"
    /\ committedInCall
    /\ Len(rows) >= 1

-----------------------------------------------------------------------------
(* data.py: the distribution layer.  Streams are /replace connections,     *)
(* Requests are handlers of GET /data; each is an asyncio task that the    *)
(* event loop may switch at its awaits.                                    *)

Streams == {"s1"}
Requests == {"d1"}
\* handlers of GET /health
Health == {"h1"}

\* line 41
cache_duration == 5
\* lines 198 and 224: asyncio.sleep(5)
poll_interval == 5

\* seconds of wall clock the model follows for a stream connection: three
\* polls, 5 seconds apart
MaxTime == 10

\* seconds of wall clock the model follows for GET /data requests: a cache
\* entry is filled, served and has expired
MaxRequestTime == 7

\* the readings the ingestion program commits while the web server runs
WebReadings == { <<None, Some(400), Some(12)>> }

NewTask(pc) ==
    [ pc |-> pc,              \* position of the task
      current_time |-> 0,     \* read_latest_data: current_time
      conn |-> "none",        \* the connection the task holds: none | open | broken
      data |-> NoDict,        \* the result of read_latest_data (data / result)
      last_sent |-> None,     \* last_sent_replace_data
      wake |-> 0,             \* when asyncio.sleep(5) ends
      total |-> 0,            \* get_total_count's result
      status |-> 0,           \* HTTP status of the last GET /data answer
      earlier |-> {},         \* observer: keys last sent on the client's
                              \* earlier connections
      cancelled |-> FALSE ]   \* CancelledError is on its way up the task

\* where a task continues when read_latest_data returns
ReturnTo(t) == IF t \in Requests THEN "count" ELSE "emit"

\* lines 64-65 without the comparison of line 65: an entry never expires
CacheValid_NeverExpires(data, time, current_time) ==
    /\ data.keys # {}
    /\ ~IsNone(time)

\* lines 64-65 with "<" mistaken for "<="
CacheValid_Inclusive(data, time, current_time) ==
    /\ data.keys # {}
    /\ ~IsNone(time)
    /\ current_time - Val(time) <= cache_duration

\* lines 64-65: the cache entry is present and younger than cache_duration
CacheValid(data, time, current_time) ==
    /\ data.keys # {}
    /\ ~IsNone(time)
    /\ current_time - Val(time) < cache_duration

\* ORDER BY timestamp DESC LIMIT 1
LatestRow(table) ==
    table[CHOOSE i \in 1..Len(table) :
            \A j \in 1..Len(table) : table[j].timestamp <= table[i].timestamp]

\* every reference to the object old now sees new
Rebind(ref, old, new) == IF ref = old THEN new ELSE ref

\* the clock advances by a second, up to the given time
ClockTo(limit) ==
    /\ now < limit
    /\ now' = now + 1
    /\ UNCHANGED <<dbUp, rows, ingestVars, webVars, codecVars>>

\* the clock while a stream connection is followed
Tick == ClockTo(MaxTime)

\* the clock while GET /data requests are followed
RequestTick == ClockTo(MaxRequestTime)

\* arduino_sensor.py lines 322-323 seen from the web server: the ingestion
\* program commits one more row, stamped with the current time
RowAppended ==
    /\ dbUp
    /\ Len(rows) < MaxRows
    /\ IF rows = <<>> THEN TRUE ELSE rows[Len(rows)].timestamp < now
    /\ \E r \in WebReadings : rows' = Append(rows, InsertValues(now, r))
    /\ UNCHANGED <<dbUp, now, ingestVars, webVars, codecVars>>

\* where a task continues after the close of a finally block: at the given
\* position, or nowhere when the block ran for a CancelledError
AfterClose(t, pc) == IF task[t].cancelled THEN "cancelled" ELSE pc

\* lines 63-66: read_latest_data up to its first await
ReadBegin(t) ==
    /\ \/ task[t].pc \in {"poll", "idle"}
       \/ task[t].pc = "sleep" /\ now >= task[t].wake
    /\ IF CacheValid(cached_data, last_cache_time, now)
       THEN task' = [task EXCEPT ![t].current_time = now,
                                 ![t].data = cached_data,
                                 ![t].wake = 0,
                                 ![t].pc = ReturnTo(t)]
       ELSE task' = [task EXCEPT ![t].current_time = now,
                                 ![t].wake = 0,
                                 ![t].pc = "connect"]
    /\ UNCHANGED <<dbUp, rows, now, ingestVars, codecVars, cached_data, last_cache_time, slog>>

\* lines 68-70: get_db_connection; None makes the call return an error
ReadConnect(t) ==
    /\ task[t].pc = "connect"
    /\ IF dbUp
       THEN task' = [task EXCEPT ![t].conn = "open", ![t].pc = "fetch"]
       ELSE task' = [task EXCEPT ![t].data = ErrorDict("connect"),
                                 ![t].pc = ReturnTo(t)]
    /\ UNCHANGED <<dbUp, rows, now, ingestVars, codecVars, cached_data, last_cache_time, slog>>

\* lines 83-84 answering the empty table with an error result
FetchResult_EmptyIsError(alive, table, current_time, t) ==
    IF ~alive THEN ErrorDict("read")
    ELSE IF table = <<>> THEN ErrorDict("empty")
    ELSE SuccessDict(LatestRow(table), current_time, t)

\* the result lines 81-105 produce from what fetchrow gave
FetchResult(alive, table, current_time, t) ==
    IF ~alive THEN ErrorDict("read")
    ELSE IF table = <<>> THEN EmptyTableDict
    ELSE SuccessDict(LatestRow(table), current_time, t)

\* lines 98-100 moved in front of the checks: every result is stored
StoresResult_Always(result) == TRUE

\* lines 98-100: only a success result is stored
StoresResult(result) == "latest_data" \in result.keys

\* lines 81-105: fetchrow, the result, the cache update (no await in between)
ReadFetch(t) ==
    /\ task[t].pc = "fetch"
    /\ LET result == FetchResult(task[t].conn = "open", rows,
                                 task[t].current_time, t)
       IN  /\ task' = [task EXCEPT ![t].data = result, ![t].pc = "close"]
           /\ IF StoresResult(result)
              THEN /\ cached_data' = result
                   /\ last_cache_time' = Some(task[t].current_time)
              ELSE UNCHANGED <<cached_data, last_cache_time>>
    /\ UNCHANGED <<dbUp, rows, now, ingestVars, codecVars, slog>>

\* lines 106-107: finally: await conn.close(), then the return
ReadClose(t) ==
    /\ task[t].pc = "close"
    /\ task' = [task EXCEPT ![t].conn = "none",
                            ![t].pc = AfterClose(t, ReturnTo(t))]
    /\ UNCHANGED <<dbUp, rows, now, ingestVars, codecVars, cached_data, last_cache_time, slog>>

-----------------------------------------------------------------------------
(* data.py: /replace, event_generator, lines 185-233 *)

\* an entry of slog: a poll result or a yielded event
Entry(what, kind, latest_data) ==
    [what |-> what, kind |-> kind, latest_data |-> latest_data]

PollEntry(d) ==
    Entry("poll",
          IF "error" \in d.keys THEN "error"
          ELSE IF "latest_data" \in d.keys THEN "success" ELSE "empty",
          d.latest_data)

\* lines 202-208: current_data_key
current_data_key(d) ==
    IF "latest_data" \in d.keys
    THEN IF ~IsNone(d.latest_data.timestamp)
         THEN d.latest_data.timestamp
         ELSE Repr(d.latest_data)
    ELSE None

\* lines 190-199 without the early continue of the error branch
EmittedEvents_ErrorsDeduplicated(d, last_sent) ==
    IF current_data_key(d) # last_sent
    THEN IF "latest_data" \in d.keys
         THEN <<Entry("event", "success", d.latest_data)>>
         ELSE <<Entry("event", "error", NoLatest)>>
    ELSE <<>>

\* line 211 comparing against nothing: every poll is sent
EmittedEvents_NoChangeCheck(d, last_sent) ==
    IF "error" \in d.keys THEN <<Entry("event", "error", NoLatest)>>
    ELSE IF "latest_data" \in d.keys
         THEN <<Entry("event", "success", d.latest_data)>>
         ELSE <<>>

\* lines 190-233: the events one iteration yields; a result without
\* latest_data whose key differs raises KeyError at line 214, which the
\* handler of line 226 turns into an error event
EmittedEvents(d, last_sent) ==
    IF "error" \in d.keys THEN <<Entry("event", "error", NoLatest)>>
    ELSE IF current_data_key(d) # last_sent
         THEN IF "latest_data" \in d.keys
              THEN <<Entry("event", "success", d.latest_data)>>
              ELSE <<Entry("event", "error", NoLatest)>>
         ELSE <<>>

\* line 222: last_sent_replace_data after the iteration
KeyAfter(d, last_sent) ==
    IF "error" \notin d.keys /\ "latest_data" \in d.keys
       /\ current_data_key(d) # last_sent
    THEN current_data_key(d)
    ELSE last_sent

\* line 214: data["latest_data"] raises KeyError for a result that holds
\* neither error nor latest_data while the key differs from the last one
RaisesKeyError(d, last_sent) ==
    /\ "error" \notin d.keys
    /\ "latest_data" \notin d.keys
    /\ current_data_key(d) # last_sent

\* lines 226-233 taken away: an exception of the iteration ends the generator
LoopAfter_NoHandler(d, last_sent) ==
    IF "error" \in d.keys THEN "sleep"
    ELSE IF RaisesKeyError(d, last_sent) THEN "ended"
    ELSE "sleep"

\* where the generator is after one iteration: in asyncio.sleep(5) of line
\* 198 (error result), of line 233 (exception caught at line 226) or of line
\* 224 (otherwise); "ended" would be the generator finished
LoopAfter(d, last_sent) ==
    IF "error" \in d.keys THEN "sleep"
    ELSE IF RaisesKeyError(d, last_sent) THEN "sleep"
    ELSE "sleep"

\* lines 180 and 183 with the key kept in a module global, as last_sent_data
\* of line 42: every connection reads and writes the one variable
KeyHolders_Global(t) == DOMAIN task \ Requests

\* lines 180 and 183: last_sent_replace_data is a local of the call that
\* opened the connection; the connections whose key an iteration of t writes
KeyHolders(t) == {t}

\* the observer's record of a stream's last iteration: the poll result, the
\* events yielded for it, last_sent_replace_data before it, and the key of
\* the last success event yielded before it (None when there was none)
NoIteration == [n |-> 0, poll |-> Entry("poll", "none", NoLatest), out |-> <<>>,
                key_before |-> None, sent_before |-> None, errs |-> 0]

\* error polls since the last success event, counted up to 2
ErrorsSince(it, d, out) ==
    IF "error" \in d.keys THEN (IF it.errs < 2 THEN it.errs + 1 ELSE 2)
    ELSE IF \E i \in 1..Len(out) : out[i].kind = "success" THEN 0
    ELSE it.errs

\* the key of the last success event among those yielded up to an iteration
SentUpTo(it) ==
    IF \E i \in 1..Len(it.out) : it.out[i].kind = "success"
    THEN it.out[Len(it.out)].latest_data.timestamp
    ELSE it.sent_before

\* one iteration from the return of read_latest_data to asyncio.sleep(5);
\* the local data is dead afterwards
StreamEmit(t) ==
    /\ task[t].pc = "emit"
    /\ slog' = [slog EXCEPT ![t] =
                  [ n |-> IF @.n < 2 THEN @.n + 1 ELSE @.n,
                    poll |-> PollEntry(task[t].data),
                    out |-> EmittedEvents(task[t].data, task[t].last_sent),
                    key_before |-> task[t].last_sent,
                    sent_before |-> SentUpTo(@),
                    errs |-> ErrorsSince(@, task[t].data,
                                EmittedEvents(task[t].data, task[t].last_sent)) ]]
    /\ task' = [u \in DOMAIN task |->
                  IF u = t
                  THEN [task[t] EXCEPT
                          !.last_sent = KeyAfter(task[t].data, task[t].last_sent),
                          !.data = NoDict,
                          !.current_time = 0,
                          !.wake = now + poll_interval,
                          !.pc = LoopAfter(task[t].data, task[t].last_sent)]
                  ELSE IF u \in KeyHolders(t)
                       THEN [task[u] EXCEPT
                               !.last_sent = KeyAfter(task[t].data, task[t].last_sent)]
                       ELSE task[u]]
    /\ UNCHANGED <<dbUp, rows, now, ingestVars, codecVars, cached_data, last_cache_time>>

-----------------------------------------------------------------------------
(* data.py: GET /data, lines 164-175, with get_total_count, lines 148-162 *)

\* lines 167-169: an error result becomes HTTP 500
DataAfterRead(t) ==
    /\ task[t].pc = "count"
    /\ IF "error" \in task[t].data.keys
       THEN task' = [task EXCEPT ![t].status = 500, ![t].current_time = 0,
                                 ![t].pc = "answered"]
       ELSE task' = [task EXCEPT ![t].current_time = 0,
                                 ![t].pc = "count_connect"]
    /\ UNCHANGED <<dbUp, rows, now, ingestVars, codecVars, cached_data, last_cache_time, slog>>

\* lines 150-152
CountConnect(t) ==
    /\ task[t].pc = "count_connect"
    /\ IF dbUp
       THEN task' = [task EXCEPT ![t].conn = "open", ![t].pc = "count_fetch"]
       ELSE task' = [task EXCEPT ![t].total = 0, ![t].pc = "respond"]
    /\ UNCHANGED <<dbUp, rows, now, ingestVars, codecVars, cached_data, last_cache_time, slog>>

\* lines 154-160
CountFetch(t) ==
    /\ task[t].pc = "count_fetch"
    /\ task' = [task EXCEPT
                  ![t].total = IF task[t].conn = "open" THEN Len(rows) ELSE 0,
                  ![t].pc = "count_close"]
    /\ UNCHANGED <<dbUp, rows, now, ingestVars, codecVars, cached_data, last_cache_time, slog>>

\* lines 161-162
CountClose(t) ==
    /\ task[t].pc = "count_close"
    /\ task' = [task EXCEPT ![t].conn = "none",
                            ![t].pc = AfterClose(t, "respond")]
    /\ UNCHANGED <<dbUp, rows, now, ingestVars, codecVars, cached_data, last_cache_time, slog>>

\* lines 173-175: total_records is written into the result object, which is
\* the cached object whenever the cache still refers to it
DataRespond(t) ==
    /\ task[t].pc = "respond"
    /\ LET old == task[t].data
           new == WithTotal(old, task[t].total)
           shared == old.by # ""
       IN  /\ task' = [u \in DOMAIN task |->
                         IF u = t
                         THEN [task[t] EXCEPT !.data = new, !.status = 200,
                                              !.total = 0, !.pc = "answered"]
                         ELSE IF shared
                              THEN [task[u] EXCEPT !.data = Rebind(@, old, new)]
                              ELSE task[u]]
           /\ cached_data' = IF shared THEN Rebind(cached_data, old, new)
                             ELSE cached_data
    /\ UNCHANGED <<dbUp, rows, now, ingestVars, codecVars, last_cache_time, slog>>

\* the answer is sent and the handler's locals die
DataDone(t) ==
    /\ task[t].pc = "answered"
    /\ task' = [task EXCEPT ![t].data = NoDict, ![t].status = 0, ![t].pc = "idle"]
    /\ UNCHANGED <<dbUp, rows, now, ingestVars, codecVars, cached_data, last_cache_time, slog>>

-----------------------------------------------------------------------------
(* data.py: GET /health, lines 255-270 *)

\* lines 258-260: no connection is answered with 503
HealthConnect(t) ==
    /\ task[t].pc = "h_idle"
    /\ IF dbUp
       THEN task' = [task EXCEPT ![t].conn = "open", ![t].pc = "h_query"]
       ELSE task' = [task EXCEPT ![t].status = 503, ![t].pc = "h_answered"]
    /\ UNCHANGED <<dbUp, rows, now, ingestVars, codecVars, cached_data, last_cache_time, slog>>

\* line 264: fetchval("SELECT 1"); an exception goes to line 267
HealthQuery(t) ==
    /\ task[t].pc = "h_query"
    /\ task' = [task EXCEPT
                  ![t].status = IF task[t].conn = "open" THEN 200 ELSE 503,
                  ![t].pc = "h_close"]
    /\ UNCHANGED <<dbUp, rows, now, ingestVars, codecVars, cached_data, last_cache_time, slog>>

\* line 265 or line 269: await conn.close(), then the answer
HealthClose(t) ==
    /\ task[t].pc = "h_close"
    /\ task' = [task EXCEPT ![t].conn = "none", ![t].pc = "h_answered"]
    /\ UNCHANGED <<dbUp, rows, now, ingestVars, codecVars, cached_data, last_cache_time, slog>>

\* the answer is sent
HealthDone(t) ==
    /\ task[t].pc = "h_answered"
    /\ task' = [task EXCEPT ![t].status = 0, ![t].pc = "h_idle"]
    /\ UNCHANGED <<dbUp, rows, now, ingestVars, codecVars, cached_data, last_cache_time, slog>>

-----------------------------------------------------------------------------
(* data.py: a task cancelled while it waits for the answer to its query *)

\* the awaits of the queries: lines 81, 156 and 264
SuspendedOnQuery == {"fetch", "count_fetch", "h_query"}

\* where CancelledError, which is no Exception, takes the task: into the
\* finally block of line 106 or of line 161; past the except Exception of
\* line 267, out of health_check
CancelledAt(pc) ==
    IF pc = "fetch" THEN "close"
    ELSE IF pc = "count_fetch" THEN "count_close"
    ELSE "cancelled"

\* the event loop throws CancelledError into the waiting task
Cancel(t) ==
    /\ task[t].pc \in SuspendedOnQuery
    /\ task' = [task EXCEPT ![t].cancelled = TRUE,
                            ![t].pc = CancelledAt(task[t].pc)]
    /\ UNCHANGED <<dbUp, rows, now, ingestVars, codecVars, cached_data, last_cache_time, slog>>

-----------------------------------------------------------------------------
(* The web server *)

IngestIdle ==
    /\ connection = "none"
    /\ txn = "idle"
    /\ pending = None
    /\ ipc = "start"
    /\ serialOpen = FALSE
    /\ raw_data = <<>>
    /\ reading = <<None, None, None>>
    /\ consecutive_errors = 0
    /\ saveResult = "none"
    /\ nonSysStreak = 0
    /\ callLog = <<>>
    /\ committedInCall = FALSE
    /\ exitReason = "none"
    /\ previousResult = "none"

\* the web server starts with no cache entry and the given tasks
WebStart(tasks) ==
    /\ dbUp \in BOOLEAN
    /\ rows = <<>>
    /\ now = 0
    /\ IngestIdle
    /\ CodecIdle
    /\ cached_data = NoDict
    /\ last_cache_time = None
    /\ task = [t \in tasks |-> NewTask(IF t \in Requests THEN "idle"
                                        ELSE IF t \in Health THEN "h_idle"
                                        ELSE "poll")]
    /\ slog = [t \in tasks \ (Requests \cup Health) |-> NoIteration]

\* GET /data requests, one after the other
InitData == WebStart(Requests)

NextData ==
    \/ DbDown
    \/ DbUp
    \/ RequestTick
    \/ RowAppended
    \/ \E t \in Requests : ReadBegin(t)
    \/ \E t \in Requests : ReadConnect(t)
    \/ \E t \in Requests : ReadFetch(t)
    \/ \E t \in Requests : ReadClose(t)
    \/ \E t \in Requests : DataAfterRead(t)
    \/ \E t \in Requests : CountConnect(t)
    \/ \E t \in Requests : CountFetch(t)
    \/ \E t \in Requests : CountClose(t)
    \/ \E t \in Requests : DataRespond(t)
    \/ \E t \in Requests : DataDone(t)

SpecData == InitData /\ [][NextData]_vars

\* one /replace connection
InitStream == WebStart(Streams)

NextStream ==
    \/ DbDown
    \/ DbUp
    \/ Tick
    \/ RowAppended
    \/ \E t \in Streams : ReadBegin(t)
    \/ \E t \in Streams : ReadConnect(t)
    \/ \E t \in Streams : ReadFetch(t)
    \/ \E t \in Streams : ReadClose(t)
    \/ \E t \in Streams : StreamEmit(t)

SpecStream == InitStream /\ [][NextStream]_vars

-----------------------------------------------------------------------------
(* data.py: a client that drops its /replace connection and opens a new one *)

\* seconds of wall clock the model follows across reconnects: a cache entry
\* is filled, served to a new connection and has expired
MaxReconnectTime == 6

ReconnectTick == ClockTo(MaxReconnectTime)

\* line 180 keeping the key in a module global, as last_sent_data of line 42
InitialKey_Shared(previous) == previous

\* line 180: last_sent_replace_data of a new connection
InitialKey(previous) == None

\* the client disconnects during the interval wait and calls /replace again:
\* a new generator with new locals, lines 177-183
StreamReconnect(t) ==
    /\ task[t].pc = "sleep"
    /\ task' = [task EXCEPT ![t] =
                  [NewTask("poll") EXCEPT
                     !.last_sent = InitialKey(task[t].last_sent),
                     !.earlier = task[t].earlier \cup
                                   (IF IsNone(task[t].last_sent) THEN {}
                                    ELSE {task[t].last_sent})]]
    /\ slog' = [slog EXCEPT ![t] = NoIteration]
    /\ UNCHANGED <<dbUp, rows, now, ingestVars, codecVars, cached_data, last_cache_time>>

NextReconnect ==
    \/ DbDown
    \/ DbUp
    \/ ReconnectTick
    \/ RowAppended
    \/ \E t \in Streams : ReadBegin(t)
    \/ \E t \in Streams : ReadConnect(t)
    \/ \E t \in Streams : ReadFetch(t)
    \/ \E t \in Streams : ReadClose(t)
    \/ \E t \in Streams : StreamEmit(t)
    \/ \E t \in Streams : StreamReconnect(t)

SpecReconnect == InitStream /\ [][NextReconnect]_vars

-----------------------------------------------------------------------------
(* data.py: a /replace connection and a GET /data handler at the same time *)

\* seconds of wall clock the model follows while the two tasks interleave:
\* time passes between the start of a refresh and its query
MaxConcurrentTime == 2

ConcurrentTick == ClockTo(MaxConcurrentTime)

InitConcurrent == WebStart(Streams \cup Requests)

NextConcurrent ==
    \/ DbDown
    \/ DbUp
    \/ ConcurrentTick
    \/ RowAppended
    \/ \E t \in Streams \cup Requests : ReadBegin(t)
    \/ \E t \in Streams \cup Requests : ReadConnect(t)
    \/ \E t \in Streams \cup Requests : ReadFetch(t)
    \/ \E t \in Streams \cup Requests : ReadClose(t)
    \/ \E t \in Streams : StreamEmit(t)
    \/ \E t \in Requests : DataAfterRead(t)
    \/ \E t \in Requests : CountConnect(t)
    \/ \E t \in Requests : CountFetch(t)
    \/ \E t \in Requests : CountClose(t)
    \/ \E t \in Requests : DataRespond(t)
    \/ \E t \in Requests : DataDone(t)

SpecConcurrent == InitConcurrent /\ [][NextConcurrent]_vars

-----------------------------------------------------------------------------
(* data.py: two /replace connections and a GET /data handler at once *)

\* the clients connected to /replace at the same time
Clients == {"s1", "s2"}

\* seconds of wall clock the model follows while the three tasks interleave:
\* each connection makes its first poll, and a store that fails stays down
MaxSharedTime == 1

SharedTick == ClockTo(MaxSharedTime)

InitShared == WebStart(Clients \cup Requests)

NextShared ==
    \/ DbDown
    \/ SharedTick
    \/ RowAppended
    \/ \E t \in Clients \cup Requests : ReadBegin(t)
    \/ \E t \in Clients \cup Requests : ReadConnect(t)
    \/ \E t \in Clients \cup Requests : ReadFetch(t)
    \/ \E t \in Clients \cup Requests : ReadClose(t)
    \/ \E t \in Clients : StreamEmit(t)
    \/ \E t \in Requests : DataAfterRead(t)
    \/ \E t \in Requests : CountConnect(t)
    \/ \E t \in Requests : CountFetch(t)
    \/ \E t \in Requests : CountClose(t)
    \/ \E t \in Requests : DataRespond(t)
    \/ \E t \in Requests : DataDone(t)

SpecShared == InitShared /\ [][NextShared]_vars

-----------------------------------------------------------------------------
(* data.py: GET /data and GET /health handlers that may be cancelled *)

InitCancel == WebStart(Requests \cup Health)

NextCancel ==
    \/ DbDown
    \/ DbUp
    \/ RowAppended
    \/ \E t \in Requests : ReadBegin(t)
    \/ \E t \in Requests : ReadConnect(t)
    \/ \E t \in Requests : ReadFetch(t)
    \/ \E t \in Requests : ReadClose(t)
    \/ \E t \in Requests : DataAfterRead(t)
    \/ \E t \in Requests : CountConnect(t)
    \/ \E t \in Requests : CountFetch(t)
    \/ \E t \in Requests : CountClose(t)
    \/ \E t \in Requests : DataRespond(t)
    \/ \E t \in Requests : DataDone(t)
    \/ \E t \in Health : HealthConnect(t)
    \/ \E t \in Health : HealthQuery(t)
    \/ \E t \in Health : HealthClose(t)
    \/ \E t \in Health : HealthDone(t)
    \/ \E t \in Requests \cup Health : Cancel(t)

SpecCancel == InitCancel /\ [][NextCancel]_vars

-----------------------------------------------------------------------------
(* data.py: a /replace connection that stays connected and is scheduled *)

\* seconds of wall clock the model follows: the polls at 0, 5 and 10
MaxDeliverTime == 10

\* a second passes only while the connection is in asyncio.sleep(5): the
\* awaits on the store complete within the second in which they began
DeliverTick ==
    /\ \A t \in Streams : task[t].pc = "sleep" /\ now < task[t].wake
    /\ ClockTo(MaxDeliverTime)

\* the store changes while a poll still follows within the time observed
StoreMayChange == now < MaxDeliverTime - poll_interval

\* the steps of the connection's task
StreamStep(t) ==
    \/ ReadBegin(t)
    \/ ReadConnect(t)
    \/ ReadFetch(t)
    \/ ReadClose(t)
    \/ StreamEmit(t)

NextDeliver ==
    \/ StoreMayChange /\ DbDown
    \/ StoreMayChange /\ DbUp
    \/ StoreMayChange /\ RowAppended
    \/ DeliverTick
    \/ \E t \in Streams : StreamStep(t)

\* the event loop resumes a task whose await has completed, and time goes on
SpecDeliver ==
    /\ InitStream
    /\ [][NextDeliver]_vars
    /\ \A t \in Streams : WF_vars(StreamStep(t))
    /\ WF_vars(DeliverTick)

-----------------------------------------------------------------------------
(* data.py: a /replace connection while the table may lose its rows *)

\* seconds of wall clock the model follows: a success event, the expiry of
\* its cache entry and the poll after it
MaxLoopTime == 6

LoopTick == ClockTo(MaxLoopTime)

\* the operator of the store empties sensor_readings
TableCleared ==
    /\ dbUp
    /\ rows # <<>>
    /\ rows' = <<>>
    /\ UNCHANGED <<dbUp, now, ingestVars, webVars, codecVars>>

NextLoop ==
    \/ DbDown
    \/ DbUp
    \/ LoopTick
    \/ RowAppended
    \/ TableCleared
    \/ \E t \in Streams : ReadBegin(t)
    \/ \E t \in Streams : ReadConnect(t)
    \/ \E t \in Streams : ReadFetch(t)
    \/ \E t \in Streams : ReadClose(t)
    \/ \E t \in Streams : StreamEmit(t)

SpecLoop == InitStream /\ [][NextLoop]_vars

-----------------------------------------------------------------------------
(* SerialDataReader.read_line applied to the lines of ByteLines *)

\* neither program runs
Quiet ==
    /\ dbUp = FALSE
    /\ rows = <<>>
    /\ now = 0
    /\ IngestIdle
    /\ WebIdle

InitDecode ==
    /\ Quiet
    /\ codec_pc = "read"
    /\ line_bytes \in ByteLines
    /\ decoded_data = <<>>
    /\ decode_attempts = 0

\* lines 107-110: decoded_data = self.safe_decode(raw_data)
ReadLineDecode ==
    /\ codec_pc = "read"
    /\ decoded_data' = safe_decode(line_bytes)
    /\ decode_attempts' = DecodeAttempts(line_bytes)
    /\ codec_pc' = "decoded"
    /\ UNCHANGED <<dbUp, rows, now, ingestVars, webVars, line_bytes>>

NextDecode == ReadLineDecode

SpecDecode == InitDecode /\ [][NextDecode]_vars

-----------------------------------------------------------------------------
(* SensorDataParser.parse_sensor_data applied to lines built from fields *)

\* a labelled field: the label, a colon and what follows it
Field(label, value) == <<Lab(label), Lab(":")>> \o value

PhFields ==
    { <<>>,
      Field("pH", <<Num(7, 1)>>),
      Field("pH", <<Num(7, 1), Lab("."), Num(5, 1)>>),
      Field("pH", <<Lab("-"), Num(1, 1), Lab("."), Num(5, 1)>>),
      Field("pH", <<Lab("txt")>>) }

OrpFields ==
    { <<>>,
      Field("ORP", <<Num(400, 3)>>),
      Field("ORP", <<Lab("-"), Num(50, 2)>>),
      Field("ORP", <<Num(12, 2), Lab("."), Num(5, 1)>>),
      Field("ORP", <<Lab("txt")>>) }

NtuFields ==
    { <<>>,
      Field("NTU", <<Num(12, 2)>>),
      Field("Turbidity", <<Num(12, 2)>>),
      Field("NTU", <<Num(12, 2), Lab("."), Num(5, 1)>>) }

\* the lines: zero to three fields, in the two orders
FieldLines ==
    { p \o o \o n : p \in PhFields, o \in OrpFields, n \in NtuFields }
        \cup { n \o o \o p : p \in PhFields, o \in OrpFields, n \in NtuFields }

InitParse ==
    /\ dbUp = FALSE
    /\ rows = <<>>
    /\ now = 0
    /\ connection = "none"
    /\ txn = "idle"
    /\ pending = None
    /\ ipc = "parse"
    /\ serialOpen = TRUE
    /\ raw_data \in FieldLines
    /\ reading = <<None, None, None>>
    /\ consecutive_errors = 0
    /\ saveResult = "none"
    /\ nonSysStreak = 0
    /\ callLog = <<>>
    /\ committedInCall = FALSE
    /\ exitReason = "none"
    /\ previousResult = "none"
    /\ WebIdle
    /\ CodecIdle

\* line 434: ph_value, orp_value, ntu_value = parse_sensor_data(raw_data)
ParseLine ==
    /\ ipc = "parse"
    /\ reading' = parse_sensor_data(raw_data)
    /\ ipc' = "parsed"
    /\ UNCHANGED <<dbUp, rows, now, connection, txn, pending, serialOpen,
                   raw_data, consecutive_errors, saveResult, nonSysStreak,
                   callLog, committedInCall, exitReason, previousResult,
                   webVars, codecVars>>

NextParse == ParseLine

SpecParse == InitParse /\ [][NextParse]_vars

-----------------------------------------------------------------------------
(* save_sensor_data's derived values, lines 297-317, applied to readings *)
(* around the thresholds                                                  *)

\* acidity in hundredths, redox in millivolts, turbidity
PhValues == {None} \cup {Some(v) : v \in {500, 649, 650, 651, 700, 749, 750, 751,
                                          849, 850, 851}}
OrpValues == {None} \cup {Some(v) : v \in {0 - 1, 0, 1, 199, 200, 201, 300, 301,
                                           650, 651, 800, 801, 900}}
NtuValues == {None, Some(12)}

InitLabel ==
    /\ dbUp = TRUE
    /\ rows = <<>>
    /\ now = 0
    /\ connection = "open"
    /\ txn = "active"
    /\ pending = None
    /\ ipc = "label"
    /\ serialOpen = TRUE
    /\ raw_data = <<>>
    /\ reading \in PhValues \X OrpValues \X NtuValues
    /\ consecutive_errors = 0
    /\ saveResult = "none"
    /\ nonSysStreak = 0
    /\ callLog = <<>>
    /\ committedInCall = FALSE
    /\ exitReason = "none"
    /\ previousResult = "none"
    /\ WebIdle
    /\ CodecIdle

\* lines 297-317: the statuses are computed and the values tuple is built
ComputeLabels ==
    /\ ipc = "label"
    /\ pending' = Some(InsertValues(now, reading))
    /\ ipc' = "labelled"
    /\ UNCHANGED <<dbUp, rows, now, connection, txn, serialOpen, raw_data,
                   reading, consecutive_errors, saveResult, nonSysStreak,
                   callLog, committedInCall, exitReason, previousResult,
                   webVars, codecVars>>

NextLabel == ComputeLabels

SpecLabel == InitLabel /\ [][NextLabel]_vars

-----------------------------------------------------------------------------
(* Properties of the distribution layer *)

SuccessKeys == {"status", "latest_data", "last_updated"}
EmptyKeys == {"message", "data"}
Returned(t) == task[t].pc \in {"emit", "count"}
Calling(t) == task[t].pc \in {"idle", "poll", "sleep"} /\ task'[t].pc # task[t].pc
\* task t takes the step that leaves position pc
Leaves(t, pc) == task[t].pc = pc /\ task'[t].pc # pc

\* C6: a call made less than 5 seconds after the fetch that filled the cache
\* returns the cached object at once, with no connection and no query; a call
\* made 5 seconds or more after it goes to the store, and the row it fetches
\* becomes the cache entry, stamped with the time the call started, and is
\* the result returned.
C6_CacheServesForFiveSeconds ==
    [][\A t \in DOMAIN task :
        /\ Calling(t) =>
              IF /\ "latest_data" \in cached_data.keys
                 /\ last_cache_time # None
                 /\ now - last_cache_time[1] < 5
              THEN /\ task'[t].pc = ReturnTo(t)
                   /\ task'[t].data = cached_data
                   /\ task'[t].conn = "none"
                   /\ UNCHANGED <<cached_data, last_cache_time>>
              ELSE /\ task'[t].pc = "connect"
                   /\ task'[t].current_time = now
        /\ (Leaves(t, "fetch") /\ task[t].conn = "open" /\ rows # <<>>) =>
              /\ "latest_data" \in task'[t].data.keys
              /\ task'[t].data.last_updated = Iso(task[t].current_time)
              /\ cached_data' = task'[t].data
              /\ last_cache_time' = Some(task[t].current_time)
        /\ Leaves(t, "close") =>
              /\ task'[t].pc = ReturnTo(t)
              /\ task'[t].data = task[t].data
      ]_vars

C6_ServedFromCacheAfterFourSeconds ==
    \E t \in DOMAIN task :
        /\ task[t].pc = "count"
        /\ "latest_data" \in cached_data.keys
        /\ task[t].data = cached_data
        /\ task[t].current_time = last_cache_time[1] + 4

\* C7: a call that cannot connect or whose query raises returns an error
\* result and leaves cached_data and last_cache_time as they were; the cache
\* never holds an error result.
C7_FailureLeavesCacheUntouched ==
    /\ []("error" \notin cached_data.keys)
    /\ [][\A t \in DOMAIN task :
            ((Leaves(t, "connect") /\ ~dbUp)
                \/ (Leaves(t, "fetch") /\ task[t].conn # "open"))
            => (/\ task'[t].data.keys = {"error"}
                /\ UNCHANGED <<cached_data, last_cache_time>>)
       ]_vars

C7_ErrorReturnedWhileCacheHoldsEntry ==
    \E t \in DOMAIN task :
        /\ Returned(t)
        /\ "error" \in task[t].data.keys
        /\ "latest_data" \in cached_data.keys

\* C8 as stated: every result of read_latest_data is a success carrying
\* latest_data or an error, and GET /data answers 200 with status,
\* latest_data and last_updated or a failure status with the error.
C8_ResultIsSuccessOrError ==
    \A t \in DOMAIN task :
        /\ Returned(t) =>
              \/ SuccessKeys \subseteq task[t].data.keys
              \/ task[t].data.keys = {"error"}
        /\ task[t].pc = "answered" =>
              \/ task[t].status = 200 /\ SuccessKeys \subseteq task[t].data.keys
              \/ task[t].status = 500 /\ task[t].data.keys = {"error"}

\* C8 amended: a result is a success carrying latest_data with its four
\* fields, an error, or the result {message, data} of a query that found the
\* table without rows, which is produced exactly then; GET /data answers 200
\* with the success and total_records, 500 with the error, or 200 with the
\* message, its empty data and total_records.
C8_ResultIsSuccessErrorOrEmptyTable ==
    /\ [](\A t \in DOMAIN task :
            /\ Returned(t) =>
                  \/ /\ SuccessKeys \subseteq task[t].data.keys
                     /\ task[t].data.latest_data.timestamp # None
                  \/ task[t].data.keys = {"error"}
                  \/ task[t].data.keys = EmptyKeys
            /\ task[t].pc = "answered" =>
                  \/ /\ task[t].status = 200
                     /\ task[t].data.keys = SuccessKeys \cup {"total_records"}
                  \/ /\ task[t].status = 500
                     /\ task[t].data.keys = {"error"}
                  \/ /\ task[t].status = 200
                     /\ task[t].data.keys = EmptyKeys \cup {"total_records"})
    /\ [][\A t \in DOMAIN task :
            Leaves(t, "fetch") =>
               ((task'[t].data.keys = EmptyKeys)
                   <=> (task[t].conn = "open" /\ rows = <<>>))
       ]_vars

C8_EmptyTableAnswered ==
    \E t \in DOMAIN task :
        /\ task[t].pc = "answered"
        /\ task[t].status = 200
        /\ task[t].data.keys = EmptyKeys \cup {"total_records"}

\* the identity key of a poll entry: its timestamp, else the text of its payload
EntryKey(e) ==
    IF e.latest_data.timestamp # None THEN e.latest_data.timestamp
    ELSE Repr(e.latest_data)

\* C9: in every iteration of a stream, a success event is yielded exactly
\* when the poll gave a reading whose key differs from the key of the last
\* success event yielded on the connection, error polls in between or not;
\* the event carries the polled reading and is the only event of the
\* iteration, and a reading with the key of the last success event yields
\* nothing.
C9_EventExactlyWhenKeyChanges ==
    \A t \in DOMAIN slog :
        LET it == slog[t]
            fresh == it.poll.kind = "success" /\ EntryKey(it.poll) # it.sent_before
        IN  it.n >= 1 =>
              /\ (\E i \in 1..Len(it.out) : it.out[i].kind = "success") <=> fresh
              /\ fresh => it.out = <<Entry("event", "success", it.poll.latest_data)>>
              /\ (it.poll.kind = "success" /\ ~fresh) => it.out = <<>>

C9_RepeatAfterErrorYieldsNothing ==
    \E t \in DOMAIN slog :
        /\ slog[t].poll.kind = "success"
        /\ EntryKey(slog[t].poll) = slog[t].sent_before
        /\ slog[t].errs >= 1
        /\ slog[t].out = <<>>

\* C10: every iteration whose poll is an error yields exactly one error event
\* and leaves last_sent_replace_data as it was before the iteration.
C10_ErrorPollYieldsOneErrorEvent ==
    \A t \in DOMAIN slog :
        slog[t].poll.kind = "error" =>
            /\ Len(slog[t].out) = 1
            /\ slog[t].out[1].kind = "error"
            /\ task[t].pc = "sleep" => task[t].last_sent = slog[t].key_before

C10_SecondErrorInARow ==
    \E t \in DOMAIN slog :
        /\ slog[t].poll.kind = "error"
        /\ slog[t].errs = 2
        /\ slog[t].key_before # None
        /\ task[t].last_sent = slog[t].key_before

\* C11: a connection starts with an empty last-emitted key and reaches its
\* first fetch without an interval wait; when that fetch gives a reading, the
\* first iteration yields exactly one event, a success event carrying that
\* reading, whatever keys the client's earlier connections were sent.
C11_NewConnectionEmitsItsFirstFetch ==
    \A t \in DOMAIN slog :
        /\ slog[t].n = 0 =>
              /\ task[t].last_sent = None
              /\ task[t].pc # "sleep"
        /\ slog[t].n = 1 =>
              /\ slog[t].key_before = None
              /\ slog[t].poll.kind = "success" =>
                    slog[t].out = <<Entry("event", "success",
                                          slog[t].poll.latest_data)>>

C11_KeyOfEarlierConnectionSentAgain ==
    \E t \in DOMAIN slog :
        /\ slog[t].n = 1
        /\ slog[t].poll.kind = "success"
        /\ EntryKey(slog[t].poll) \in task[t].earlier
        /\ Len(slog[t].out) = 1
        /\ slog[t].out[1].kind = "success"

\* C12: what safe_decode returns holds no character below code point 32 other
\* than tab, newline and carriage return, and empty input gives the empty
\* string without a decode attempt.
C12_DecodedLineHasNoControlCharacter ==
    codec_pc = "decoded" =>
        /\ \A i \in 1..Len(decoded_data) :
              decoded_data[i] >= 32 \/ decoded_data[i] \in {9, 10, 13}
        /\ line_bytes = <<>> => (decoded_data = <<>> /\ decode_attempts = 0)

\* a control character in the middle of the line is returned
C12_ControlCharacterReturned ==
    /\ codec_pc = "decoded"
    /\ line_bytes = <<65, 1, 65>>
    /\ decoded_data = <<65, 1, 65>>
    /\ decode_attempts = 1

\* what follows the label of a field in a line: the position after its colon,
\* 0 when the line has no such label
ValueAt(line, labels) ==
    IF \E i \in 1..Len(line) : line[i].k \in labels
    THEN AfterColon(line, CHOOSE i \in 1..Len(line) : line[i].k \in labels)
    ELSE 0

\* the end of the number token that starts at position j
NumberEnd(line, j) == IF KindAt(line, j) = "-" THEN j + 1 ELSE j

\* the value a whole-number field denotes: None when the label is absent or
\* its token is not a whole number
WholeNumberOf(line, labels) ==
    LET j == ValueAt(line, labels)
    IN  IF j = 0 THEN None
        ELSE IF KindAt(line, NumberEnd(line, j) + 1) = "." THEN None
        ELSE SignedInt(line, j)

\* the value a decimal field denotes, in hundredths
DecimalOf(line, labels) ==
    LET j == ValueAt(line, labels)
    IN  IF j = 0 THEN None ELSE SignedDecimal(line, j)

\* C13: for every line built from zero to three labelled fields, each of the
\* three results is the value its own field denotes, whatever the other two
\* fields are, and it is None when the field is absent or its token is not a
\* number of the expected type (a decimal after ORP, NTU or Turbidity).
C13_EachFieldIsItsOwnTokenOrNone ==
    ipc = "parsed" =>
        /\ reading[1] = DecimalOf(raw_data, {"pH"})
        /\ reading[2] = WholeNumberOf(raw_data, {"ORP"})
        /\ reading[3] = WholeNumberOf(raw_data, {"Turbidity", "NTU"})

\* the redox value of "ORP: 12.5" is the truncated 12
C13_DecimalRedoxTruncated ==
    /\ ipc = "parsed"
    /\ raw_data = Field("ORP", <<Num(12, 2), Lab("."), Num(5, 1)>>)
    /\ reading = <<None, Some(12), None>>

\* C14: the acidity label of a reading is acidic below 6.5, alkaline above
\* 7.5 and neutral from 6.5 to 7.5, and absent exactly when the acidity is;
\* the redox label is strongly oxidizing above 650, oxidizing above 300 up to
\* 650, weakly oxidizing above 0 up to 300, reducing at 0 or below, and
\* absent exactly when the redox value is.
C14_LabelsFollowTheThresholds ==
    ipc = "labelled" =>
        LET row == pending[1]
            ph == reading[1]
            orp == reading[2]
        IN  /\ (row.ph_status = None) <=> (ph = None)
            /\ ph # None =>
                  row.ph_status[1] = IF ph[1] < 650 THEN "acidic"
                                     ELSE IF ph[1] > 750 THEN "alkaline"
                                     ELSE "neutral"
            /\ (row.orp_status = None) <=> (orp = None)
            /\ orp # None =>
                  row.orp_status[1] = IF orp[1] > 650 THEN "strongly oxidizing"
                                      ELSE IF orp[1] > 300 THEN "oxidizing"
                                      ELSE IF orp[1] > 0 THEN "weakly oxidizing"
                                      ELSE "reducing"

C14_BoundaryReadingLabelled ==
    /\ ipc = "labelled"
    /\ reading[1] = <<650>>
    /\ reading[2] = <<0>>
    /\ pending[1].ph_status = <<"neutral">>
    /\ pending[1].orp_status = <<"reducing">>

\* C15: water_quality_good is absent exactly when the acidity or the redox
\* value is absent; otherwise it is true exactly when the acidity is within
\* 6.5..8.5 and the redox value within 200..800, the ends included.
C15_QualityFlagFollowsBothRanges ==
    ipc = "labelled" =>
        LET good == pending[1].water_quality_good
            ph == reading[1]
            orp == reading[2]
        IN  /\ (good = None) <=> (ph = None \/ orp = None)
            /\ (ph # None /\ orp # None) =>
                  good[1] = (/\ 650 <= ph[1] /\ ph[1] <= 850
                             /\ 200 <= orp[1] /\ orp[1] <= 800)

C15_AbsentAcidityGivesNoFlag ==
    /\ ipc = "labelled"
    /\ reading[1] = None
    /\ reading[2] = <<900>>
    /\ pending[1].water_quality_good = None

\* C16: the values save_sensor_data is given are the extracted ones, in range
\* or not, and a call on a healthy connection (liveness check passed, every
\* round trip answered) returns True with its row stored holding those values.
C16_OutOfRangeReadingIsPersisted ==
    /\ InSave => reading = parse_sensor_data(raw_data)
    /\ (SaveEnded /\ callLog[1] = "check_ok" /\ ~LogHas(LostRoundTrips)) =>
          /\ saveResult = "True"
          /\ committedInCall
          /\ Len(rows) >= 1
          /\ rows[Len(rows)].ph_value = reading[1]
          /\ rows[Len(rows)].orp_value = reading[2]
          /\ rows[Len(rows)].ntu_value = reading[3]

\* the reading with acidity 150.0 is rejected on a healthy connection
C16_OutOfRangeReadingRejected ==
    /\ saveResult = "False"
    /\ reading[1] = <<15000>>
    /\ callLog = <<"check_ok", "insert_rejected", "rollback">>
    /\ ~committedInCall

\* C17: when read_arduino_data has ended on a stop signal, the serial link is
\* closed and the store connection, if one was opened, is closed.
C17_InterruptReleasesEverything ==
    (ipc = "done" /\ exitReason = "interrupt") =>
        /\ ~serialOpen
        /\ connection \in {"none", "closed"}

\* a stop signal during create_table leaves both resources open
C17_InterruptedWhileConnectingLeaks ==
    /\ ipc = "done"
    /\ exitReason = "interrupt"
    /\ serialOpen
    /\ connection = "open"

\* C18: the running loop is left only through the circuit breaker or the
\* stop signal, and no save_sensor_data call lets an exception out: a store
\* failure makes the call return False and the loop goes on.
C18_LoopEndsOnlyByBreakerOrInterrupt ==
    /\ ipc = "finally" => exitReason \in {"breaker", "interrupt"}
    /\ saveResult # "raised"

\* the connection is lost between the liveness check and the INSERT: the
\* rollback raises and the loop ends
C18_LostConnectionEndsTheLoop ==
    /\ ipc = "finally"
    /\ exitReason = "exception"
    /\ callLog = <<"check_ok", "insert_error", "rollback_error">>

\* C19: if the store stays unreachable from some time on and the loop keeps
\* attempting appends, each failing at its liveness check and its reconnect,
\* the loop is eventually left through the circuit breaker.
C19_LostStoreTripsTheBreaker ==
    ((<>[](~dbUp)) /\ ([]<>(ipc = "save_reconnect")))
        => <>(exitReason = "breaker")

\* an append failed at its reconnect and the failure counter stands at 0
C19_FailedAppendNotCounted ==
    /\ ipc = "after_save"
    /\ saveResult = "False"
    /\ callLog = <<"check_fail", "reconnect_fail">>
    /\ ~dbUp
    /\ consecutive_errors = 0

\* C20: at every suspension point of every task the cache is whole: either
\* cached_data and last_cache_time are both unset, or cached_data is the
\* result of one refresh and last_cache_time is the start time of that same
\* refresh, also while another refresh is in flight.
C20_CachePairIsWhole ==
    \/ /\ cached_data = NoDict
       /\ last_cache_time = None
    \/ /\ "latest_data" \in cached_data.keys
       /\ last_cache_time # None
       /\ cached_data.last_updated = Iso(last_cache_time[1])

\* one refresh has stored its result while the other task's query is in flight
C20_RefreshStoredWhileOtherInFlight ==
    \E t, u \in DOMAIN task :
        /\ t # u
        /\ task[t].pc = "fetch"
        /\ task[u].pc = "close"
        /\ "latest_data" \in cached_data.keys
        /\ cached_data = task[u].data
        /\ task[t].current_time < task[u].current_time

\* C21: a cache entry is never mutated after it is stored: cached_data
\* changes only in the step of a refresh that stores its success result, and
\* then becomes that result; no GET /data request and no stream poll that
\* reads the entry changes its content.
C21_CacheEntryChangesOnlyByRefresh ==
    [][ cached_data' # cached_data =>
          \E t \in DOMAIN task :
              /\ Leaves(t, "fetch")
              /\ StoresResult(task'[t].data)
              /\ cached_data' = task'[t].data ]_vars

\* the stored entry carries total_records, which no refresh writes
C21_StoredEntryGainedTotalRecords ==
    /\ "latest_data" \in cached_data.keys
    /\ "total_records" \in cached_data.keys
    /\ \A t \in DOMAIN task : task[t].pc # "fetch"

\* the positions of the publisher loop of one /replace connection
LoopPositions == {"poll", "connect", "fetch", "close", "emit", "sleep"}

\* C22: the /replace loop never ends on its own: whatever the poll returned
\* (success, error result, a result without latest_data, or a result that
\* makes the iteration raise), the iteration ends in the 5-second wait, the
\* generator stays inside the loop, and an error result or a raised
\* exception reaches the client as one error event.
C22_EveryIterationEndsInTheWait ==
    [][ \A t \in Streams :
          /\ task'[t].pc \in LoopPositions
          /\ Leaves(t, "emit") =>
               /\ task'[t].pc = "sleep"
               /\ task'[t].wake = now + poll_interval
               /\ ( \/ "error" \in task[t].data.keys
                    \/ RaisesKeyError(task[t].data, task[t].last_sent) ) =>
                      slog'[t].out = <<Entry("event", "error", NoLatest)>> ]_vars

\* after a success event the table was emptied: the iteration raised at line
\* 214, the client got an error event and the generator waits
C22_RaisedIterationWaits ==
    \E t \in Streams :
        /\ task[t].pc = "sleep"
        /\ ~IsNone(task[t].last_sent)
        /\ slog[t].poll.kind = "empty"
        /\ slog[t].out = <<Entry("event", "error", NoLatest)>>
        /\ task[t].wake = now + poll_interval

\* C23: the last-emitted key is private to one /replace connection: with two
\* clients and GET /data requests interleaved, a client's key changes only in
\* the step in which that client is sent a success event, and becomes that
\* event's key; events of the other client, error events and GET /data leave
\* it unchanged, and a client whose poll returned a reading with a key other
\* than its own is sent that reading whatever the other client was sent.
C23_KeyChangesOnlyWithOwnSuccessEvent ==
    [][ \A t \in Clients :
          /\ task'[t].last_sent # task[t].last_sent =>
               /\ Leaves(t, "emit")
               /\ slog'[t].out =
                     <<Entry("event", "success", task[t].data.latest_data)>>
               /\ task'[t].last_sent = task[t].data.latest_data.timestamp
          /\ ( /\ Leaves(t, "emit")
               /\ "latest_data" \in task[t].data.keys
               /\ task[t].data.latest_data.timestamp # task[t].last_sent ) =>
               /\ slog'[t].out =
                     <<Entry("event", "success", task[t].data.latest_data)>>
               /\ task'[t].last_sent = task[t].data.latest_data.timestamp ]_vars

\* the two clients were sent different readings and hold different keys,
\* while a GET /data request has been answered
C23_ClientsHoldDifferentKeys ==
    /\ ~IsNone(task["s1"].last_sent)
    /\ ~IsNone(task["s2"].last_sent)
    /\ task["s1"].last_sent # task["s2"].last_sent
    /\ \E d \in Requests : task[d].pc = "answered" /\ task[d].status = 200

\* the positions at which a task is inside none of the operations that
\* acquire a connection
OutsideOperation ==
    {"idle", "poll", "sleep", "emit", "count", "count_connect", "respond",
     "answered", "h_idle", "h_answered", "cancelled"}

\* C24: every connection that read_latest_data, get_total_count or
\* health_check acquired is closed before the operation finishes, on every
\* exit path (return, empty result, query exception, cancellation while the
\* task waits for its query): a task outside these operations holds no
\* connection.
C24_NoOperationLeavesAConnection ==
    \A t \in DOMAIN task :
        task[t].pc \in OutsideOperation => task[t].conn = "none"

\* read_latest_data was cancelled during fetchrow and closed its connection
\* in the finally block before the CancelledError left it
C24_CancelledReadClosedItsConnection ==
    \E t \in Requests :
        /\ task[t].pc = "cancelled"
        /\ task[t].data = NoDict
        /\ task[t].conn = "none"

\* C25: under overlapping refreshes the cache never regresses: once it holds
\* an entry, every later write leaves it with an entry whose cachedAt is not
\* earlier and whose reading is not older than before.
C25_CacheNeverRegresses ==
    [][ ~IsNone(last_cache_time) =>
          /\ ~IsNone(last_cache_time')
          /\ Val(last_cache_time') >= Val(last_cache_time)
          /\ cached_data'.latest_data.timestamp[2] >=
                cached_data.latest_data.timestamp[2] ]_vars

\* a task still holds the result of its refresh, while the cache holds the
\* entry of a refresh that started earlier and finished later
C25_EarlierRefreshOverwroteLater ==
    \E t, u \in DOMAIN task :
        /\ t # u
        /\ "latest_data" \in task[u].data.keys
        /\ task[u].data.by = u
        /\ cached_data.by = t
        /\ ~IsNone(last_cache_time)
        /\ task[u].data.last_updated[2] > Val(last_cache_time)

\* the cachedAt a success result carries: last_updated, written at line 95
\* from the current_time that line 100 stores as last_cache_time
CachedAt(d) == d.last_updated[2]

\* the query of a refresh completes at or after the cachedAt of the entry it
\* stores
QueryCompletesAfterCachedAt ==
    \A t \in DOMAIN task :
        (Leaves(t, "fetch") /\ "latest_data" \in task'[t].data.keys) =>
            /\ CachedAt(task'[t].data) <= now
            /\ cached_data' = task'[t].data
            /\ last_cache_time' = Some(CachedAt(task'[t].data))

\* C26 as stated: every success result that read_latest_data returns at time
\* t comes from a query completed at or after its cachedAt, and t - cachedAt
\* is less than 5 seconds, t being the time of the return.
C26_StalenessBoundedAtTheReturn ==
    [][ /\ QueryCompletesAfterCachedAt
        /\ \A t \in DOMAIN task :
             ( /\ ~Returned(t)
               /\ task'[t].pc \in {"emit", "count"}
               /\ "latest_data" \in task'[t].data.keys ) =>
                 now - CachedAt(task'[t].data) < cache_duration ]_vars

\* C26, amended: every success result of read_latest_data comes from a query
\* completed at or after its cachedAt, and the clock reading t with which the
\* call began satisfies 0 <= t - cachedAt < 5 seconds; the call that runs
\* the query itself returns whenever its awaits have completed.
C26_StalenessBoundedAtTheCall ==
    /\ [](\A t \in DOMAIN task :
            (Returned(t) /\ "latest_data" \in task[t].data.keys) =>
                /\ task[t].current_time - CachedAt(task[t].data) >= 0
                /\ task[t].current_time - CachedAt(task[t].data) < cache_duration)
    /\ [][QueryCompletesAfterCachedAt]_vars

\* a call that began at the cachedAt of its own refresh returns 5 seconds or
\* more later
C26_RefreshReturnedAfterFiveSeconds ==
    \E t \in DOMAIN task :
        /\ Returned(t)
        /\ "latest_data" \in task[t].data.keys
        /\ task[t].data.by = t
        /\ CachedAt(task[t].data) = task[t].current_time
        /\ now - task[t].current_time >= cache_duration

\* the key of the latest row of sensor_readings
LatestKey == IF rows = <<>> THEN None ELSE Iso(LatestRow(rows).timestamp)

\* C27: delivery liveness: while the client stays connected, if from some
\* moment on the store stays reachable and a row remains the latest row of
\* sensor_readings, then the client is eventually sent a success event
\* carrying that row, and its last-emitted key is that row's timestamp.
C27_LatestRowIsEventuallyDelivered ==
    (<>[](dbUp /\ rows # <<>>)) =>
        <>[](\A t \in Streams :
                /\ task[t].last_sent = LatestKey
                /\ SentUpTo(slog[t]) = LatestKey)

\* a row that arrived after the client's first event, while the cache still
\* held the older reading, has been delivered by a later poll
C27_LaterRowDelivered ==
    \E t \in Streams :
        /\ Len(rows) = 2
        /\ slog[t].out = <<Entry("event", "success",
                                 SuccessDict(LatestRow(rows), 0, t).latest_data)>>
        /\ slog[t].sent_before = Iso(rows[1].timestamp)
        /\ task[t].last_sent = LatestKey

\* the database answered every round trip of the current call and accepted
\* its reconnect, if one was made
HealthyDuringCall == ~LogHas(LostRoundTrips \cup {"reconnect_fail"})

\* C28: the store handle recovers after a failed append: when the call before
\* returned failure and the database is healthy during the next call, that
\* call returns success and its row is stored.
C28_NextAppendAfterFailureSucceeds ==
    (SaveEnded /\ previousResult = "False" /\ HealthyDuringCall) =>
        (saveResult = "True" /\ committedInCall)

\* after a failed append and a reconnect, the next call stored its row
C28_AppendAfterFailureStored ==
    /\ SaveEnded
    /\ previousResult = "False"
    /\ callLog = <<"check_fail", "reconnect_ok", "insert", "commit", "select">>
    /\ saveResult = "True"
    /\ committedInCall

====
